---- MODULE Spec2Model ----
(***************************************************************************)
(* A model of the qutee quad tree: boundary geometry (src/src/boundary.rs), *)
(* the tree with its insertion algorithm (src/src/lib.rs) and the lazy      *)
(* traversals Query / Iter (src/src/iter.rs), over integer coordinates.     *)
(*                                                                         *)
(* Option<T> is modelled by None / Some(v); a Rust tuple (Point, Item) by   *)
(* the pair <<point, value>>; a slice by a sequence; the array             *)
(* [QuadTree; 4] by a sequence of 4 nodes, so the Rust index i is i + 1.    *)
(***************************************************************************)
EXTENDS Integers, Sequences, FiniteSets

VARIABLES
    tree,      \* the root QuadTree (nested nodes)
    inserted,  \* history: the pairs stored so far, in call order
    traversal, \* the live Query / Iter shared data, if any
    out,       \* history: the tree items the live traversal has returned
    last       \* the last call: its name, its point argument, its result,
               \* for a query the work its traversal has done so far, for a
               \* pull whether the pull before it had returned None

vars == <<tree, inserted, traversal, out, last>>

(***************************************************************************)
(* Bounds of the model.                                                    *)
(***************************************************************************)
MaxCoord == 2
MaxItems == 3
MaxCap == 2

Coords == 0..MaxCoord

(***************************************************************************)
(* Option, Result                                                          *)
(***************************************************************************)
None == [some |-> FALSE]
Some(v) == [some |-> TRUE, val |-> v]

Ok == [tag |-> "Ok"]
OutOfBounds(boundary, point) ==
    [tag |-> "Err", err |-> "OutOfBounds", boundary |-> boundary, point |-> point]

(***************************************************************************)
(* Point and Boundary                                                      *)
(***************************************************************************)
Point(x, y) == [x |-> x, y |-> y]

\* Integer division of the coordinate type: truncation toward zero.
DivTrunc(a, b) == IF a >= 0 THEN a \div b ELSE -((-a) \div b)

Boundary_new(point, width, height) ==
    LET p1 == point
        p2 == Point(p1.x + width, p1.y + height)
    IN  [p1 |-> p1, p2 |-> p2]

between_points_swaps_x_only(a, b) ==
    LET swapx == a.x > b.x
        p1x == IF swapx THEN b.x ELSE a.x
        p2x == IF swapx THEN a.x ELSE b.x
    IN  [p1 |-> Point(p1x, a.y), p2 |-> Point(p2x, b.y)]

between_points(a, b) ==
    LET swapx == a.x > b.x
        p1x == IF swapx THEN b.x ELSE a.x
        p2x == IF swapx THEN a.x ELSE b.x
        swapy == a.y > b.y
        p1y == IF swapy THEN b.y ELSE a.y
        p2y == IF swapy THEN a.y ELSE b.y
    IN  [p1 |-> Point(p1x, p1y), p2 |-> Point(p2x, p2y)]

between_points_unchecked(p1, p2) == [p1 |-> p1, p2 |-> p2]

left_border(self) == self.p1.x
right_border(self) == self.p2.x
top_border(self) == self.p1.y
bottom_border(self) == self.p2.y

\* The coordinate types of the model: a signed and an unsigned 8-bit integer
\* (impl Coordinate for i8, impl Coordinate for u8).
CoordinateTypes == {"i8", "u8"}

Value(v) == [tag |-> "value", val |-> v]
Panic(msg) == [tag |-> "panic", msg |-> msg]

\* a - b in the coordinate type C: the difference when the type holds it;
\* when it does not, a build with overflow checks panics and a build
\* without them wraps around. The set of the outcomes.
sub(C, a, b) ==
    LET d == a - b
        lo == IF C = "u8" THEN 0 ELSE 0 - 128
        hi == IF C = "u8" THEN 255 ELSE 127
    IN  IF lo <= d /\ d <= hi
        THEN {Value(d)}
        ELSE {Panic("attempt to subtract with overflow"),
              Value(((d - lo) % 256) + lo)}

width(C, self) == sub(C, right_border(self), left_border(self))

height(C, self) == sub(C, top_border(self), bottom_border(self))

split_wrong_far_corner(self) ==
    LET dx == self.p2.x - self.p1.x
        dy == self.p2.y - self.p1.y
        half_dx == DivTrunc(dx, 2)
        half_dy == DivTrunc(dy, 2)
    IN  << Boundary_new(self.p1, half_dx, half_dy),
           Boundary_new(Point(self.p1.x + half_dx, self.p1.y), half_dx, half_dy),
           Boundary_new(Point(self.p1.x, self.p1.y + half_dy), half_dx, half_dy),
           Boundary_new(Point(self.p1.x + half_dx, self.p1.y + half_dy),
                        half_dx, half_dy) >>

split(self) ==
    LET dx == self.p2.x - self.p1.x
        dy == self.p2.y - self.p1.y
        two == 2
        half_dx == DivTrunc(dx, two)
        half_dy == DivTrunc(dy, two)
    IN  << Boundary_new(self.p1, half_dx, half_dy),
           between_points_unchecked(
               Point(self.p1.x + half_dx, self.p1.y),
               Point(self.p2.x, self.p1.y + half_dy)),
           between_points_unchecked(
               Point(self.p1.x, self.p1.y + half_dy),
               Point(self.p1.x + half_dx, self.p2.y)),
           between_points_unchecked(
               Point(self.p1.x + half_dx, self.p1.y + half_dy),
               self.p2) >>

contains_open(self, point) ==
    ~(point.x <= self.p1.x \/ point.x >= self.p2.x
      \/ point.y <= self.p1.y \/ point.y >= self.p2.y)

contains(self, point) ==
    ~(point.x < self.p1.x \/ point.x > self.p2.x
      \/ point.y < self.p1.y \/ point.y > self.p2.y)

intersects_open(self, b) ==
    ~(b.p2.x <= self.p1.x \/ b.p1.x >= self.p2.x
      \/ b.p2.y <= self.p1.y \/ b.p1.y >= self.p2.y)

intersects(self, b) ==
    ~(b.p2.x < self.p1.x \/ b.p1.x > self.p2.x
      \/ b.p2.y < self.p1.y \/ b.p1.y > self.p2.y)

encloses_one_corner(self, boundary) == contains(self, boundary.p1)

encloses(self, boundary) ==
    contains(self, boundary.p1) /\ contains(self, boundary.p2)

(***************************************************************************)
(* Capacity (DynCap / ConstCap): the number it returns                      *)
(***************************************************************************)
capacity(cap) == cap

(***************************************************************************)
(* QuadTree                                                                *)
(***************************************************************************)
new_with_capacity(boundary, cap) ==
    [boundary |-> boundary, quadrants |-> None, items |-> None, capacity |-> cap]

\* sub_tree.items.as_ref().map(|i| i.len()).unwrap_or_default()
items_len(sub_tree) == IF sub_tree.items.some THEN Len(sub_tree.items.val) ELSE 0

has_room_off_by_one(sub_tree) == items_len(sub_tree) <= capacity(sub_tree.capacity)

\* the test that ends the descent
has_room(sub_tree) == items_len(sub_tree) < capacity(sub_tree.capacity)

\* .items.get_or_insert_with(|| Vec::with_capacity(..)).push((point, value))
push_item(sub_tree, point, value) ==
    LET vec == IF sub_tree.items.some THEN sub_tree.items.val ELSE <<>>
    IN  [sub_tree EXCEPT !.items = Some(Append(vec, <<point, value>>))]

\* .quadrants.insert(..split..): the children are created anew each time.
get_or_insert_quadrants_always_splits(sub_tree) ==
    LET b == split(sub_tree.boundary)
    IN  << new_with_capacity(b[1], sub_tree.capacity),
           new_with_capacity(b[2], sub_tree.capacity),
           new_with_capacity(b[3], sub_tree.capacity),
           new_with_capacity(b[4], sub_tree.capacity) >>

\* sub_tree.quadrants.get_or_insert_with(|| ..split..)
get_or_insert_quadrants(sub_tree) ==
    IF sub_tree.quadrants.some
    THEN sub_tree.quadrants.val
    ELSE LET b == split(sub_tree.boundary)
         IN  << new_with_capacity(b[1], sub_tree.capacity),
                new_with_capacity(b[2], sub_tree.capacity),
                new_with_capacity(b[3], sub_tree.capacity),
                new_with_capacity(b[4], sub_tree.capacity) >>

quadrant_index_non_strict(quads, point) ==
    LET is_in_right_half == IF quads[1].boundary.p2.x <= point.x THEN 1 ELSE 0
        is_in_bottom_half == IF quads[1].boundary.p2.y <= point.y THEN 1 ELSE 0
    IN  is_in_bottom_half * 2 + is_in_right_half

\* (is_in_bottom_half << 1) | is_in_right_half
quadrant_index(quads, point) ==
    LET is_in_right_half == IF quads[1].boundary.p2.x < point.x THEN 1 ELSE 0
        is_in_bottom_half == IF quads[1].boundary.p2.y < point.y THEN 1 ELSE 0
    IN  is_in_bottom_half * 2 + is_in_right_half

\* The descent loop: one unfolding per iteration of `loop`.
RECURSIVE insert_at_unchecked(_, _, _)
insert_at_unchecked(sub_tree, point, value) ==
    IF has_room(sub_tree)
    THEN push_item(sub_tree, point, value)
    ELSE LET quads == get_or_insert_quadrants(sub_tree)
             index == quadrant_index(quads, point)
         IN  [sub_tree EXCEPT !.quadrants =
                 Some([quads EXCEPT ![index + 1] =
                          insert_at_unchecked(quads[index + 1], point, value)])]

insert_at_checks_after_inserting(self, point, value) ==
    LET inserted_into == insert_at_unchecked(self, point, value)
    IN  IF ~contains(self.boundary, point)
        THEN [ret |-> OutOfBounds(self.boundary, point), tree |-> inserted_into]
        ELSE [ret |-> Ok, tree |-> inserted_into]

\* The result and the tree after insert_at.
insert_at(self, point, value) ==
    IF ~contains(self.boundary, point)
    THEN [ret |-> OutOfBounds(self.boundary, point), tree |-> self]
    ELSE [ret |-> Ok, tree |-> insert_at_unchecked(self, point, value)]

(***************************************************************************)
(* Query: QuerySharedData, QueryStackItem, query_next                      *)
(***************************************************************************)
Min(S) == CHOOSE m \in S : \A n \in S : m <= n

QueryStackItem_new_without_quadrants(node, parent_is_enclosed_by_area, area) ==
    [is_enclosed_by_area |->
         parent_is_enclosed_by_area \/ encloses(area, node.boundary),
     items |-> node.items,
     quadrants |-> None]

\* quadrants: tree.quadrants.as_ref().map(|q| q.as_slice())
\* items:     tree.items.as_deref()
QueryStackItem_new(node, parent_is_enclosed_by_area, area) ==
    [is_enclosed_by_area |->
         parent_is_enclosed_by_area \/ encloses(area, node.boundary),
     items |-> node.items,
     quadrants |-> node.quadrants]

QuerySharedData_new(root, area) ==
    [kind |-> "Query",
     stack |-> << QueryStackItem_new(root, FALSE, area) >>,
     area |-> area]

visits_quad_always(ctx, area, quad) == TRUE

\* the test that lets the traversal descend into a child
visits_quad(ctx, area, quad) ==
    ctx.is_enclosed_by_area \/ intersects(area, quad.boundary)

returns_item_always(ctx, area, item) == TRUE

\* the test that lets the traversal return an item
returns_item(ctx, area, item) ==
    ctx.is_enclosed_by_area \/ contains(area, item[1])

\* The inner `while !quads.is_empty()`: the position in the slice of the
\* first child that is visited, 0 when the loop runs off the end.
first_visited_quad(ctx, area) ==
    LET quads == ctx.quadrants.val
        hit == {i \in 1..Len(quads) : visits_quad(ctx, area, quads[i])}
    IN  IF hit = {} THEN 0 ELSE Min(hit)

\* The inner `while !items.is_empty()`: the position in the slice of the
\* first item that is returned, 0 when the loop runs off the end.
first_returned_item(ctx, area) ==
    LET items == ctx.items.val
        hit == {i \in 1..Len(items) : returns_item(ctx, area, items[i])}
    IN  IF hit = {} THEN 0 ELSE Min(hit)

Rest(s, i) == SubSeq(s, i + 1, Len(s))

\* The work one call of query_next has done is reported next to its result:
\* items_examined counts the iterations of `while !items.is_empty()` (each
\* reads one stored pair), frames_pushed the calls of stack.push (each
\* descends into one child).
NoWork == [items_examined |-> 0, frames_pushed |-> 0]

\* The iterations of `while !items.is_empty()` on a frame: up to the item
\* returned, or over the whole slice.
items_loop_iterations(ctx, i) ==
    IF ~ctx.items.some THEN 0 ELSE IF i > 0 THEN i ELSE Len(ctx.items.val)

\* query_next with the two halves of 'main in the other order: a frame's
\* items are drained before its children are visited.
RECURSIVE query_next_items_first(_)
query_next_items_first(data) ==
    LET stack == data.stack
        area == data.area
        top == Len(stack)
    IN  IF top = 0
        THEN [ret |-> None, data |-> data, work |-> NoWork]
        ELSE
        LET ctx == stack[top]
            i == IF ctx.items.some THEN first_returned_item(ctx, area) ELSE 0
            n == items_loop_iterations(ctx, i)
        IN  IF i > 0
            THEN LET items == ctx.items.val
                     ctx1 == [ctx EXCEPT !.items = Some(Rest(items, i))]
                 IN  [ret |-> Some(items[i]),
                      data |-> [data EXCEPT !.stack = [stack EXCEPT ![top] = ctx1]],
                      work |-> [NoWork EXCEPT !.items_examined = n]]
            ELSE
            LET ctx1 == [ctx EXCEPT !.items = None]
                q == IF ctx1.quadrants.some THEN first_visited_quad(ctx1, area) ELSE 0
            IN  IF q > 0
                THEN LET quads == ctx1.quadrants.val
                         ctx2 == [ctx1 EXCEPT !.quadrants = Some(Rest(quads, q))]
                         int_query == QueryStackItem_new(
                                          quads[q], ctx.is_enclosed_by_area, area)
                         r == query_next_items_first([data EXCEPT !.stack =
                                  Append([stack EXCEPT ![top] = ctx2], int_query)])
                     IN  [r EXCEPT !.work.items_examined = @ + n,
                                   !.work.frames_pushed = @ + 1]
                ELSE LET r == query_next_items_first(
                                  [data EXCEPT !.stack = SubSeq(stack, 1, top - 1)])
                     IN  [r EXCEPT !.work.items_examined = @ + n]

\* One call of query_next: the reference returned, the shared data left and
\* the work done. Each unfolding is one iteration of 'main.
RECURSIVE query_next(_)
query_next(data) ==
    LET stack == data.stack
        area == data.area
        top == Len(stack)
    IN  IF top = 0
        THEN [ret |-> None, data |-> data, work |-> NoWork]
        ELSE
        LET ctx == stack[top]
            q == IF ctx.quadrants.some THEN first_visited_quad(ctx, area) ELSE 0
        IN  IF q > 0
            THEN LET quads == ctx.quadrants.val
                     ctx1 == [ctx EXCEPT !.quadrants = Some(Rest(quads, q))]
                     int_query == QueryStackItem_new(
                                      quads[q], ctx.is_enclosed_by_area, area)
                     r == query_next([data EXCEPT !.stack =
                              Append([stack EXCEPT ![top] = ctx1], int_query)])
                 IN  [r EXCEPT !.work.frames_pushed = @ + 1]
            ELSE
            LET ctx1 == [ctx EXCEPT !.quadrants = None]
                i == IF ctx1.items.some THEN first_returned_item(ctx1, area) ELSE 0
                n == items_loop_iterations(ctx1, i)
            IN  IF i > 0
                THEN LET items == ctx1.items.val
                         ctx2 == [ctx1 EXCEPT !.items = Some(Rest(items, i))]
                     IN  [ret |-> Some(items[i]),
                          data |-> [data EXCEPT !.stack = [stack EXCEPT ![top] = ctx2]],
                          work |-> [NoWork EXCEPT !.items_examined = n]]
                ELSE LET r == query_next(
                                  [data EXCEPT !.stack = SubSeq(stack, 1, top - 1)])
                     IN  [r EXCEPT !.work.items_examined = @ + n]

(***************************************************************************)
(* Iter: IterSharedData, IterStackItem, iter_next                          *)
(***************************************************************************)
IterStackItem_without_quadrants(node) == [quadrants |-> None, items |-> node.items]

\* the frame of a node: slices over its children and over its items
IterStackItem(node) == [quadrants |-> node.quadrants, items |-> node.items]

IterSharedData_new(root) ==
    [kind |-> "Iter", stack |-> << IterStackItem(root) >>]

\* iter_next with its two halves in the other order: a frame's children are
\* visited before its items are drained.
RECURSIVE iter_next_quadrants_first(_)
iter_next_quadrants_first(data) ==
    LET stack == data.stack
        top == Len(stack)
    IN  IF top = 0
        THEN [ret |-> None, data |-> data]
        ELSE
        LET ctx == stack[top] IN
        IF ctx.quadrants.some /\ ctx.quadrants.val # <<>>
        THEN LET quadrants == ctx.quadrants.val
                 ctx1 == [ctx EXCEPT !.quadrants = Some(Rest(quadrants, 1))]
             IN  iter_next_quadrants_first([data EXCEPT !.stack =
                     Append([stack EXCEPT ![top] = ctx1],
                            IterStackItem(quadrants[1]))])
        ELSE
        LET ctx1 == [ctx EXCEPT !.quadrants = None] IN
        IF ctx1.items.some /\ ctx1.items.val # <<>>
        THEN LET items == ctx1.items.val
                 ctx2 == [ctx1 EXCEPT !.items = Some(Rest(items, 1))]
             IN  [ret |-> Some(items[1]),
                  data |-> [data EXCEPT !.stack = [stack EXCEPT ![top] = ctx2]]]
        ELSE iter_next_quadrants_first(
                 [data EXCEPT !.stack = SubSeq(stack, 1, top - 1)])

\* iter_next without `*items = &items[1..]`: the cursor over the items is
\* not advanced.
RECURSIVE iter_next_keeps_item(_)
iter_next_keeps_item(data) ==
    LET stack == data.stack
        top == Len(stack)
    IN  IF top = 0
        THEN [ret |-> None, data |-> data]
        ELSE
        LET ctx == stack[top] IN
        IF ctx.items.some /\ ctx.items.val # <<>>
        THEN [ret |-> Some(ctx.items.val[1]), data |-> data]
        ELSE
        LET ctx1 == [ctx EXCEPT !.items = None] IN
        IF ctx1.quadrants.some /\ ctx1.quadrants.val # <<>>
        THEN LET quadrants == ctx1.quadrants.val
                 ctx2 == [ctx1 EXCEPT !.quadrants = Some(Rest(quadrants, 1))]
             IN  iter_next_keeps_item([data EXCEPT !.stack =
                     Append([stack EXCEPT ![top] = ctx2],
                            IterStackItem(quadrants[1]))])
        ELSE iter_next_keeps_item([data EXCEPT !.stack = SubSeq(stack, 1, top - 1)])

RECURSIVE iter_next(_)
iter_next(data) ==
    LET stack == data.stack
        top == Len(stack)
    IN  IF top = 0
        THEN [ret |-> None, data |-> data]
        ELSE
        LET ctx == stack[top] IN
        IF ctx.items.some /\ ctx.items.val # <<>>
        THEN LET items == ctx.items.val
                 ctx1 == [ctx EXCEPT !.items = Some(Rest(items, 1))]
             IN  [ret |-> Some(items[1]),
                  data |-> [data EXCEPT !.stack = [stack EXCEPT ![top] = ctx1]]]
        ELSE
        LET ctx1 == [ctx EXCEPT !.items = None] IN
        IF ctx1.quadrants.some
        THEN LET quadrants == ctx1.quadrants.val IN
             IF quadrants # <<>>
             THEN LET ctx2 == [ctx1 EXCEPT !.quadrants = Some(Rest(quadrants, 1))]
                  IN  iter_next([data EXCEPT !.stack =
                          Append([stack EXCEPT ![top] = ctx2],
                                 IterStackItem(quadrants[1]))])
             ELSE iter_next([data EXCEPT !.stack = SubSeq(stack, 1, top - 1)])
        ELSE iter_next([data EXCEPT !.stack = SubSeq(stack, 1, top - 1)])

\* FromTreeItem::from_iter_type: Query / Iter return the item,
\* QueryPoints / IterPoints the whole pair.
from_iter_type_item(t) == t[2]
from_iter_type_pair(t) == t

(***************************************************************************)
(* The state machine                                                       *)
(***************************************************************************)
Points == {Point(x, y) : x \in Coords, y \in Coords}

\* Capacities start at 1: with a capacity of 0 no node ever has room and the
\* loop of insert_at_unchecked descends without end, so no insertion into
\* such a tree returns and the tree stays as constructed.
Capacities == 1..MaxCap

\* Every normalized boundary with its corners on the grid.
GridBoundaries == {between_points(a, b) : a \in Points, b \in Points}

\* The tree of Spec covers (0,0)..(2,2). The points inserted are one for each
\* quadrant of the root: the split point (1,1), which lies in all four
\* quadrants' boundaries and is stored north-west, (2,1) north-east, (0,2)
\* south-west and the far corner (2,2) south-east; and a point outside the
\* boundary.
RootBoundaries == {Boundary_new(Point(0, 0), 2, 2)}
InsertPoints ==
    {Point(1, 1), Point(2, 1), Point(0, 2), Point(2, 2), Point(3, 1)}

\* The query areas: every area on the grid, an area apart from the tree, one
\* that touches it in a corner, one that overlaps its east border and one
\* that is larger than the tree.
Areas ==
    GridBoundaries \cup
    { Boundary_new(Point(3, 0), 1, 2), between_points(Point(3, 3), Point(2, 2)),
      Boundary_new(Point(2, 0), 1, 1), Boundary_new(Point(0, 0), 3, 3) }

FreshTree(boundaries, caps) ==
    /\ tree \in {new_with_capacity(b, c) : b \in boundaries, c \in caps}
    /\ inserted = <<>>
    /\ traversal = None
    /\ out = <<>>
    /\ last = [op |-> "new_with_capacity"]

Init == FreshTree(RootBoundaries, Capacities)

\* The value stored by the next insertion: its ordinal, so that every stored
\* pair can be told from every other.
NextValue == Len(inserted) + 1

\* insert_at takes &mut self: it can be called only while no traversal
\* borrows the tree.
InsertAt(point) ==
    /\ traversal = None
    /\ Len(inserted) < MaxItems
    /\ LET r == insert_at(tree, point, NextValue)
       IN  /\ tree' = r.tree
           /\ inserted' = IF r.ret = Ok
                          THEN Append(inserted, <<point, NextValue>>)
                          ELSE inserted
           /\ last' = [op |-> "insert_at", point |-> point, ret |-> r.ret]
    /\ UNCHANGED <<traversal, out>>

\* insert_at_unchecked, called as documented: with a point inside the boundary.
InsertAtUnchecked(point) ==
    /\ traversal = None
    /\ Len(inserted) < MaxItems
    /\ contains(tree.boundary, point)
    /\ tree' = insert_at_unchecked(tree, point, NextValue)
    /\ inserted' = Append(inserted, <<point, NextValue>>)
    /\ last' = [op |-> "insert_at_unchecked", point |-> point]
    /\ UNCHANGED <<traversal, out>>

\* The model follows one traversal at a time.
Query(area) ==
    /\ traversal = None
    /\ traversal' = Some(QuerySharedData_new(tree, area))
    /\ out' = <<>>
    /\ last' = [op |-> "query", area |-> area, work |-> NoWork]
    /\ UNCHANGED <<tree, inserted>>

\* The call before this one was a pull on the same traversal that returned None.
AfterNone == last.op \in {"query_next", "iter_next"} /\ last.ret = None

\* The work of the live query, all its calls of query_next taken together.
WorkSoFar(work) ==
    [items_examined |-> last.work.items_examined + work.items_examined,
     frames_pushed |-> last.work.frames_pushed + work.frames_pushed]

QueryNext ==
    /\ traversal.some
    /\ traversal.val.kind = "Query"
    /\ LET r == query_next(traversal.val)
       IN  /\ traversal' = Some(r.data)
           /\ out' = IF r.ret.some THEN Append(out, r.ret.val) ELSE out
           /\ last' = [op |-> "query_next", ret |-> r.ret,
                        work |-> WorkSoFar(r.work), after_none |-> AfterNone]
    /\ UNCHANGED <<tree, inserted>>

Iter ==
    /\ traversal = None
    /\ traversal' = Some(IterSharedData_new(tree))
    /\ out' = <<>>
    /\ last' = [op |-> "iter"]
    /\ UNCHANGED <<tree, inserted>>

IterNext ==
    /\ traversal.some
    /\ traversal.val.kind = "Iter"
    /\ LET r == iter_next(traversal.val)
       IN  /\ traversal' = Some(r.data)
           /\ out' = IF r.ret.some THEN Append(out, r.ret.val) ELSE out
           /\ last' = [op |-> "iter_next", ret |-> r.ret, after_none |-> AfterNone]
    /\ UNCHANGED <<tree, inserted>>

\* The traversal goes out of scope; its borrow of the tree ends.
Drop ==
    /\ traversal.some
    /\ traversal' = None
    /\ out' = <<>>
    /\ last' = [op |-> "drop"]
    /\ UNCHANGED <<tree, inserted>>

Next ==
    \/ \E point \in InsertPoints : InsertAt(point)
    \/ \E point \in InsertPoints : InsertAtUnchecked(point)
    \/ \E area \in Areas : Query(area)
    \/ QueryNext
    \/ Iter
    \/ IterNext
    \/ Drop

Spec == Init /\ [][Next]_vars

(***************************************************************************)
(* SpecInsert: checked insertion alone, with every point of the grid, into *)
(* trees of several shapes: even extents, an odd extent, a square of       *)
(* extent 1, a boundary that is a line.                                    *)
(***************************************************************************)
InsertRoots ==
    { between_points(Point(0, 0), Point(2, 2)),
      between_points(Point(2, 1), Point(0, 0)),
      Boundary_new(Point(1, 1), 1, 1),
      Boundary_new(Point(0, 1), 2, 0) }

InitInsert == FreshTree(InsertRoots, Capacities)

NextInsert == \E point \in Points : InsertAt(point)

SpecInsert == InitInsert /\ [][NextInsert]_vars

(***************************************************************************)
(* SpecScenario: the tree and the points of tests::insert_more_than_capacity*)
(* and tests::insert_single / insert_out_of_bounds.                        *)
(***************************************************************************)
ScenarioPoints ==
    {Point(1, 1), Point(2, 2), Point(7, 7), Point(10, 10), Point(20, 20)}

InitScenario == FreshTree({Boundary_new(Point(0, 0), 10, 10)}, {1})

NextScenario == \E point \in ScenarioPoints : InsertAt(point)

SpecScenario == InitScenario /\ [][NextScenario]_vars

(***************************************************************************)
(* SpecSplit: split() applied to every normalized boundary of a grid that  *)
(* reaches extents up to MaxCoord + 2.                                     *)
(***************************************************************************)
SplitCoords == 0..(MaxCoord + 2)
SplitPoints == {Point(x, y) : x \in SplitCoords, y \in SplitCoords}
SplitBoundaries == {between_points(a, b) : a \in SplitPoints, b \in SplitPoints}

InitSplit == FreshTree(SplitBoundaries, Capacities)

\* sub_tree.boundary.split(), as insert_at_unchecked calls it on a full node
SplitBoundary ==
    /\ last' = [op |-> "split", ret |-> split(tree.boundary)]
    /\ UNCHANGED <<tree, inserted, traversal, out>>

NextSplit == SplitBoundary

SpecSplit == InitSplit /\ [][NextSplit]_vars

(***************************************************************************)
(* SpecBoundary: the operations of Boundary, each applied once to operands *)
(* drawn at the start: a coordinate type and two normalized boundaries of   *)
(* the grid; between_points takes the first corner of each as its points.  *)
(***************************************************************************)
Operands ==
    { [op |-> "operands", type |-> C, self |-> a, boundary |-> b] :
          C \in CoordinateTypes, a \in GridBoundaries, b \in GridBoundaries }

InitBoundary ==
    /\ tree \in {new_with_capacity(b, 1) : b \in RootBoundaries}
    /\ inserted = <<>>
    /\ traversal = None
    /\ out = <<>>
    /\ last \in Operands

BetweenPoints ==
    /\ last.op = "operands"
    /\ last' = [op |-> "between_points",
                p1 |-> last.self.p1, p2 |-> last.boundary.p1,
                ret |-> between_points(last.self.p1, last.boundary.p1)]
    /\ UNCHANGED <<tree, inserted, traversal, out>>

Intersects ==
    /\ last.op = "operands"
    /\ last' = [op |-> "intersects", self |-> last.self, boundary |-> last.boundary,
                ret |-> intersects(last.self, last.boundary)]
    /\ UNCHANGED <<tree, inserted, traversal, out>>

Encloses ==
    /\ last.op = "operands"
    /\ last' = [op |-> "encloses", self |-> last.self, boundary |-> last.boundary,
                ret |-> encloses(last.self, last.boundary)]
    /\ UNCHANGED <<tree, inserted, traversal, out>>

Width ==
    /\ last.op = "operands"
    /\ \E r \in width(last.type, last.self) :
           last' = [op |-> "width", type |-> last.type, self |-> last.self,
                    ret |-> r]
    /\ UNCHANGED <<tree, inserted, traversal, out>>

Height ==
    /\ last.op = "operands"
    /\ \E r \in height(last.type, last.self) :
           last' = [op |-> "height", type |-> last.type, self |-> last.self,
                    ret |-> r]
    /\ UNCHANGED <<tree, inserted, traversal, out>>

NextBoundary ==
    \/ BetweenPoints
    \/ Intersects
    \/ Encloses
    \/ Width
    \/ Height

SpecBoundary == InitBoundary /\ [][NextBoundary]_vars

(***************************************************************************)

(* SpecDescent: insert_at_unchecked one iteration of its loop at a time,    *)
(* for every capacity from 0 on. The cursor sub_tree is the path from the   *)
(* root to the node it refers to.                                          *)
(***************************************************************************)
DescentCapacities == 0..MaxCap

\* A square and a boundary that is a single point.
DescentRoots == {Boundary_new(Point(0, 0), 2, 2), Boundary_new(Point(1, 1), 0, 0)}

\* The tree is followed down to this depth; below it the loop is known to
\* go on, and the nodes it creates are left out of `tree`.
DescentDepth == MaxItems + 1

\* The node at the path, through the children above it.
RECURSIVE node_at(_, _)
node_at(self, path) ==
    IF path = <<>> THEN self
    ELSE node_at(self.quadrants.val[Head(path)], Tail(path))

\* A write through the cursor: the tree with the node at the path replaced.
RECURSIVE write_at(_, _, _)
write_at(self, path, node) ==
    IF path = <<>> THEN node
    ELSE [self EXCEPT !.quadrants =
             Some([self.quadrants.val EXCEPT ![Head(path)] =
                      write_at(self.quadrants.val[Head(path)], Tail(path), node)])]

InitDescent == FreshTree(DescentRoots, DescentCapacities)

InCall == last.op = "insert_at_unchecked" /\ last.pc = "loop"

\* let mut sub_tree = self; let point = point.into();
CallInsertAtUnchecked(point) ==
    /\ ~InCall
    /\ Len(inserted) < MaxItems
    /\ contains(tree.boundary, point)
    /\ last' = [op |-> "insert_at_unchecked", point |-> point, value |-> NextValue,
                pc |-> "loop", sub_tree |-> <<>>, iterations |-> 0,
                below |-> FALSE, entry |-> tree]
    /\ UNCHANGED <<tree, inserted, traversal, out>>

\* One iteration of `loop`: store and return, or create the children the
\* node lacks and move the cursor to one of them.
LoopIteration ==
    /\ InCall
    /\ LET sub_tree == node_at(tree, last.sub_tree) IN
       IF has_room(sub_tree)
       THEN /\ tree' = write_at(tree, last.sub_tree,
                                push_item(sub_tree, last.point, last.value))
            /\ inserted' = Append(inserted, <<last.point, last.value>>)
            /\ last' = [last EXCEPT !.pc = "returned",
                                    !.iterations = @ + 1]
       ELSE IF Len(last.sub_tree) < DescentDepth
       THEN LET quads == get_or_insert_quadrants(sub_tree)
                index == quadrant_index(quads, last.point)
            IN  /\ tree' = write_at(tree, last.sub_tree,
                                    [sub_tree EXCEPT !.quadrants = Some(quads)])
                /\ inserted' = inserted
                /\ last' = [last EXCEPT !.sub_tree = Append(@, index + 1),
                                        !.iterations = @ + 1]
       ELSE /\ UNCHANGED <<tree, inserted>>
            /\ last' = [last EXCEPT !.below = ~@]
    /\ UNCHANGED <<traversal, out>>

NextDescent ==
    \/ \E point \in Points : CallInsertAtUnchecked(point)
    \/ LoopIteration

\* A call that has started keeps running: its thread is not suspended.
SpecDescent == InitDescent /\ [][NextDescent]_vars /\ WF_vars(LoopIteration)

(***************************************************************************)

(* Vocabulary of the properties                                            *)
(***************************************************************************)
Range(s) == {s[i] : i \in DOMAIN s}

\* How often e occurs in the sequence s.
Occurrences(s, e) == Cardinality({i \in DOMAIN s : s[i] = e})

\* Two sequences hold the same elements, each as often in one as in the other.
SameMultiset(s, t) ==
    /\ Len(s) = Len(t)
    /\ \A e \in Range(s) \cup Range(t) : Occurrences(s, e) = Occurrences(t, e)

\* The closed test p1.x <= P.x <= p2.x and p1.y <= P.y <= p2.y.
InsideClosed(b, pt) ==
    /\ b.p1.x <= pt.x /\ pt.x <= b.p2.x
    /\ b.p1.y <= pt.y /\ pt.y <= b.p2.y

\* The paths to the nodes of a tree: <<>> is the root, <<i>> its i-th child.
RECURSIVE Paths(_)
Paths(node) ==
    {<<>>} \cup
    IF node.quadrants.some
    THEN UNION { { <<i>> \o p : p \in Paths(node.quadrants.val[i]) }
                 : i \in DOMAIN node.quadrants.val }
    ELSE {}

RECURSIVE NodeAt(_, _)
NodeAt(node, path) ==
    IF path = <<>> THEN node
    ELSE NodeAt(node.quadrants.val[Head(path)], Tail(path))

\* The tree has a node at the path.
RECURSIVE HasNode(_, _)
HasNode(node, path) ==
    \/ path = <<>>
    \/ /\ node.quadrants.some
       /\ HasNode(node.quadrants.val[Head(path)], Tail(path))

\* The item list a node holds, <<>> when it has none.
OwnItems(node) == IF node.items.some THEN node.items.val ELSE <<>>

RECURSIVE Concat(_)
Concat(seqs) == IF seqs = <<>> THEN <<>> ELSE Head(seqs) \o Concat(Tail(seqs))

\* Every pair held anywhere in the subtree of a node.
RECURSIVE SubtreeItems(_)
SubtreeItems(node) ==
    OwnItems(node) \o
    (IF node.quadrants.some
     THEN Concat([i \in DOMAIN node.quadrants.val |->
                     SubtreeItems(node.quadrants.val[i])])
     ELSE <<>>)

IsPrefix(p, q) == Len(p) <= Len(q) /\ SubSeq(q, 1, Len(p)) = p

QueryExhausted ==
    /\ traversal.some
    /\ traversal.val.kind = "Query"
    /\ last.op = "query_next"
    /\ last.ret = None

IterExhausted ==
    /\ traversal.some
    /\ traversal.val.kind = "Iter"
    /\ last.op = "iter_next"
    /\ last.ret = None

\* What Query / Iter and what QueryPoints / IterPoints have handed out.
OutItems == [k \in DOMAIN out |-> from_iter_type_item(out[k])]
OutPairs == [k \in DOMAIN out |-> from_iter_type_pair(out[k])]

\* Some node below the root has children of its own.
HasDepthTwo ==
    /\ tree.quadrants.some
    /\ \E i \in DOMAIN tree.quadrants.val : tree.quadrants.val[i].quadrants.some

(***************************************************************************)
(* C1: a query pulled until it returns None has yielded exactly the stored  *)
(* pairs whose point the area contains: each of them once, and no other,   *)
(* both as pairs (QueryPoints) and as items (Query).                       *)
(***************************************************************************)
C1_QueryYieldsExactlyContained ==
    QueryExhausted =>
        LET area == traversal.val.area
            expected == {i \in DOMAIN inserted : contains(area, inserted[i][1])}
        IN  /\ \A i \in expected :
                   /\ Occurrences(OutPairs, inserted[i]) = 1
                   /\ Occurrences(OutItems, inserted[i][2]) = 1
            /\ \A k \in DOMAIN out :
                   \E i \in expected :
                       OutPairs[k] = inserted[i] /\ OutItems[k] = inserted[i][2]
            /\ Len(out) = Cardinality(expected)

\* A query over a tree of depth two that returned some pairs and left out others.
C1_Witness ==
    /\ QueryExhausted
    /\ HasDepthTwo
    /\ Len(out) >= 1
    /\ Len(out) < Len(inserted)

(***************************************************************************)
(* C2: insert_at(P, item) returns Ok if and only if P passes the closed     *)
(* test against the root boundary, and on Ok the number of pairs stored in  *)
(* the tree grows by exactly one.                                          *)
(***************************************************************************)
C2_InsertAtOkIffInside ==
    [][ last'.op = "insert_at" =>
            /\ (last'.ret = Ok) <=> InsideClosed(tree.boundary, last'.point)
            /\ (last'.ret = Ok) =>
                   Len(SubtreeItems(tree')) = Len(SubtreeItems(tree)) + 1 ]_vars

\* A point on the border was accepted by a tree that already had children.
C2_Witness ==
    /\ last.op = "insert_at"
    /\ last.ret = Ok
    /\ last.point = tree.boundary.p2
    /\ tree.quadrants.some

(***************************************************************************)
(* C3: insert_at with a point outside the root boundary returns OutOfBounds *)
(* carrying the root boundary and the point, and leaves the whole tree as   *)
(* it was.                                                                 *)
(***************************************************************************)
C3_OutOfBoundsLeavesTree ==
    [][ ( /\ last'.op = "insert_at"
          /\ ~InsideClosed(tree.boundary, last'.point) ) =>
            /\ last'.ret = OutOfBounds(tree.boundary, last'.point)
            /\ tree' = tree ]_vars

\* A point was rejected by a tree that holds pairs and has children.
C3_Witness ==
    /\ last.op = "insert_at"
    /\ last.ret.tag = "Err"
    /\ ~InsideClosed(tree.boundary, last.point)
    /\ tree.quadrants.some

(***************************************************************************)
(* C4: an iteration pulled until it returns None has yielded every stored   *)
(* pair exactly once: as many elements as insertions succeeded, none        *)
(* missing, none twice.                                                    *)
(***************************************************************************)
C4_IterYieldsEveryPairOnce ==
    IterExhausted =>
        /\ Len(out) = Len(inserted)
        /\ \A i \in DOMAIN inserted :
               /\ Occurrences(OutPairs, inserted[i]) = 1
               /\ Occurrences(OutItems, inserted[i][2]) = 1

\* An iteration over a tree of depth two ran to its end.
C4_Witness ==
    /\ IterExhausted
    /\ HasDepthTwo
    /\ Len(out) >= 3

(***************************************************************************)
(* C5: a query with the tree's own root boundary yields the same multiset   *)
(* of items as iter().                                                     *)
(***************************************************************************)
\* iter().collect(): iter_next called until it returns None.
RECURSIVE IterCollect(_)
IterCollect(data) ==
    LET r == iter_next(data)
    IN  IF r.ret.some THEN <<r.ret.val>> \o IterCollect(r.data) ELSE <<>>

IterItems(root) ==
    LET all == IterCollect(IterSharedData_new(root))
    IN  [k \in DOMAIN all |-> from_iter_type_item(all[k])]

C5_QueryOfRootBoundaryIsIter ==
    (QueryExhausted /\ traversal.val.area = tree.boundary) =>
        SameMultiset(OutItems, IterItems(tree))

\* A query with the root boundary over a tree of depth two ran to its end.
C5_Witness ==
    /\ QueryExhausted
    /\ traversal.val.area = tree.boundary
    /\ HasDepthTwo
    /\ Len(out) >= 3

(***************************************************************************)
(* Insertion steps                                                         *)
(***************************************************************************)
\* The step is an insertion that stored its pair.
Stored ==
    /\ last'.op \in {"insert_at", "insert_at_unchecked"}
    /\ Len(inserted') = Len(inserted) + 1

\* The pair stored by the step, and the path of the node that holds it.
StoredPair == inserted'[Len(inserted')]
Landing ==
    CHOOSE p \in Paths(tree') : StoredPair \in Range(OwnItems(NodeAt(tree', p)))

\* The nodes the insertion went through: the root, ..., the node it stored in.
Reached(landing) == {SubSeq(landing, 1, k) : k \in 0..Len(landing)}

(***************************************************************************)
(* C6: an insertion that reaches a node holding fewer pairs than its        *)
(* capacity creates no children there; an insertion that reaches a full     *)
(* node without children gives it exactly 4 children, and the pairs the     *)
(* node holds stay in its item list, in the same order, and appear in none  *)
(* of the new children.                                                    *)
(***************************************************************************)
C6_SplitOnlyWhenFull ==
    [][ Stored =>
          \A q \in Reached(Landing) :
              LET after == NodeAt(tree', q) IN
              IF HasNode(tree, q)
              THEN LET before == NodeAt(tree, q)
                       c == before.capacity
                   IN  /\ Len(OwnItems(before)) < c =>
                              /\ ~before.quadrants.some
                              /\ ~after.quadrants.some
                       /\ (Len(OwnItems(before)) = c /\ ~before.quadrants.some) =>
                              /\ after.quadrants.some
                              /\ Len(after.quadrants.val) = 4
                              /\ OwnItems(after) = OwnItems(before)
                              /\ \A i \in DOMAIN after.quadrants.val :
                                     Range(SubtreeItems(after.quadrants.val[i]))
                                         \cap Range(OwnItems(before)) = {}
              ELSE ~after.quadrants.some ]_vars

\* The third insertion into a root of capacity 2 has just split it.
C6_Witness ==
    /\ last.op \in {"insert_at", "insert_at_unchecked"}
    /\ tree.capacity = 2
    /\ Len(inserted) = 3
    /\ tree.quadrants.some
    /\ OwnItems(tree) = SubSeq(inserted, 1, 2)

(***************************************************************************)
(* C7: boundary (0,0)-(10,10), capacity 1, insert_at((1,1)) and then        *)
(* insert_at((2,2)).                                                       *)
(***************************************************************************)
AfterTheTwoInsertions ==
    /\ tree.boundary = between_points(Point(0, 0), Point(10, 10))
    /\ tree.capacity = 1
    /\ inserted = << <<Point(1, 1), 1>>, <<Point(2, 2), 2>> >>

SplitIntoFour5x5 ==
    /\ tree.quadrants.some
    /\ [i \in DOMAIN tree.quadrants.val |-> tree.quadrants.val[i].boundary]
         = << Boundary_new(Point(0, 0), 5, 5), Boundary_new(Point(5, 0), 5, 5),
              Boundary_new(Point(0, 5), 5, 5), Boundary_new(Point(5, 5), 5, 5) >>

\* C7 as stated: the root is split into four 5x5 children, holds both pairs
\* in its own item list, and each of the 4 children holds 0 items.
C7_RootHoldsBoth ==
    AfterTheTwoInsertions =>
        /\ SplitIntoFour5x5
        /\ Len(OwnItems(tree)) = 2
        /\ Range(OwnItems(tree)) = Range(inserted)
        /\ \A i \in DOMAIN tree.quadrants.val :
               Len(OwnItems(tree.quadrants.val[i])) = 0

\* C7 as amended: the root is split into four 5x5 children, holds (1,1) alone
\* in its own item list, the NW child holds (2,2) and the other three
\* children hold no items.
C7_RootHoldsFirstChildHoldsSecond ==
    AfterTheTwoInsertions =>
        /\ SplitIntoFour5x5
        /\ OwnItems(tree) = << <<Point(1, 1), 1>> >>
        /\ tree.quadrants.val[1].items = Some(<< <<Point(2, 2), 2>> >>)
        /\ \A i \in 2..4 : tree.quadrants.val[i].items = None
        /\ \A i \in 1..4 : tree.quadrants.val[i].quadrants = None

C7_Witness ==
    /\ AfterTheTwoInsertions
    /\ last.op = "insert_at"
    /\ last.point = Point(2, 2)
    /\ last.ret = Ok

(***************************************************************************)
(* C8: every node holds at most `capacity` pairs in its own item list, a    *)
(* node that has children holds exactly `capacity` pairs, and an insertion  *)
(* that reaches a full node leaves that node's item list alone and stores   *)
(* the pair below the child selected for its point.                        *)
(***************************************************************************)
NodesWithinCapacity ==
    \A p \in Paths(tree) :
        LET node == NodeAt(tree, p)
        IN  /\ Len(OwnItems(node)) <= node.capacity
            /\ node.quadrants.some => Len(OwnItems(node)) = node.capacity

\* The child of a split node selected for a point: east of the vertical
\* midline adds 1, south of the horizontal midline adds 2.
SelectedChild(node, pt) ==
    LET m == node.quadrants.val[1].boundary.p2
    IN  1 + (IF pt.x > m.x THEN 1 ELSE 0) + (IF pt.y > m.y THEN 2 ELSE 0)

FullNodePassesOn ==
    Stored =>
        LET landing == Landing
            point == StoredPair[1]
        IN  \A q \in Reached(landing) :
                HasNode(tree, q) =>
                    LET before == NodeAt(tree, q)
                        after == NodeAt(tree', q)
                    IN  Len(OwnItems(before)) = before.capacity =>
                            /\ OwnItems(after) = OwnItems(before)
                            /\ Len(landing) > Len(q)
                            /\ landing[Len(q) + 1] = SelectedChild(after, point)
                            /\ InsideClosed(
                                   after.quadrants.val[landing[Len(q) + 1]].boundary,
                                   point)

C8_CapacityBoundsEveryNode == []NodesWithinCapacity /\ [][FullNodePassesOn]_vars

\* A pair went through two full nodes and was stored in a grandchild.
C8_Witness ==
    /\ last.op \in {"insert_at", "insert_at_unchecked"}
    /\ HasDepthTwo
    /\ \E p \in Paths(tree) :
           /\ Len(p) = 2
           /\ inserted[Len(inserted)] \in Range(OwnItems(NodeAt(tree, p)))

(***************************************************************************)
(* C9: split() of a normalized boundary B returns 4 boundaries NW, NE, SW,  *)
(* SE, each normalized and inside B; a point is in B exactly if it is in    *)
(* one of them; a point in two of them lies on the vertical or on the       *)
(* horizontal split line.                                                  *)
(***************************************************************************)
ProbeCoords == (0 - 1)..(MaxCoord + 3)
ProbePoints == {Point(x, y) : x \in ProbeCoords, y \in ProbeCoords}

Normalized(b) == b.p1.x <= b.p2.x /\ b.p1.y <= b.p2.y

C9_SplitTilesTheBoundary ==
    last.op = "split" =>
        LET B == tree.boundary
            quads == last.ret
            mx == B.p1.x + (B.p2.x - B.p1.x) \div 2
            my == B.p1.y + (B.p2.y - B.p1.y) \div 2
        IN  /\ Len(quads) = 4
            /\ \A i \in 1..4 :
                   /\ Normalized(quads[i])
                   /\ InsideClosed(B, quads[i].p1)
                   /\ InsideClosed(B, quads[i].p2)
            /\ quads[1].p1 = B.p1
            /\ quads[2].p1.y = B.p1.y /\ quads[2].p2.x = B.p2.x
            /\ quads[3].p1.x = B.p1.x /\ quads[3].p2.y = B.p2.y
            /\ quads[4].p2 = B.p2
            /\ \A pt \in ProbePoints :
                   InsideClosed(B, pt) <=> \E i \in 1..4 : InsideClosed(quads[i], pt)
            /\ \A pt \in ProbePoints : \A i, j \in 1..4 :
                   (i # j /\ InsideClosed(quads[i], pt) /\ InsideClosed(quads[j], pt))
                       => (pt.x = mx \/ pt.y = my)

\* A boundary of odd extent 3 in x and of extent 1 in y has been split.
C9_Witness ==
    /\ last.op = "split"
    /\ tree.boundary.p2.x - tree.boundary.p1.x = 3
    /\ tree.boundary.p2.y - tree.boundary.p1.y = 1

(***************************************************************************)
(* C10: the order in which a query emits.                                  *)
(***************************************************************************)
MatchingItems(node, area) ==
    SelectSeq(OwnItems(node), LAMBDA e : contains(area, e[1]))

\* A node's own matching items first, then the subtrees of its intersecting
\* children, NW, NE, SW, SE.
RECURSIVE PreOrder(_, _)
PreOrder(node, area) ==
    MatchingItems(node, area) \o
    (IF node.quadrants.some
     THEN Concat([i \in DOMAIN node.quadrants.val |->
                     IF intersects(area, node.quadrants.val[i].boundary)
                     THEN PreOrder(node.quadrants.val[i], area)
                     ELSE <<>>])
     ELSE <<>>)

\* The subtrees of a node's intersecting children first, NW, NE, SW, SE,
\* then the node's own matching items.
RECURSIVE PostOrder(_, _)
PostOrder(node, area) ==
    (IF node.quadrants.some
     THEN Concat([i \in DOMAIN node.quadrants.val |->
                     IF intersects(area, node.quadrants.val[i].boundary)
                     THEN PostOrder(node.quadrants.val[i], area)
                     ELSE <<>>])
     ELSE <<>>)
    \o MatchingItems(node, area)

QueryLive == traversal.some /\ traversal.val.kind = "Query"

\* C10 as stated: the emission is depth-first pre-order: for each visited
\* node its own matching items in insertion order, afterwards the subtrees
\* of its intersecting children in the order NW, NE, SW, SE.
C10_QueryEmitsPreOrder ==
    QueryLive =>
        /\ IsPrefix(out, PreOrder(tree, traversal.val.area))
        /\ QueryExhausted => out = PreOrder(tree, traversal.val.area)

\* C10 as amended: the emission is depth-first post-order: for each visited
\* node first the subtrees of its intersecting children in the order NW, NE,
\* SW, SE, afterwards the node's own matching items in insertion order.
C10_QueryEmitsPostOrder ==
    QueryLive =>
        /\ IsPrefix(out, PostOrder(tree, traversal.val.area))
        /\ QueryExhausted => out = PostOrder(tree, traversal.val.area)

\* A query returned pairs of two children and then a pair of the root.
C10_Witness ==
    /\ QueryExhausted
    /\ tree.quadrants.some
    /\ Len(out) >= 3
    /\ out[Len(out)] \in Range(OwnItems(tree))
    /\ \E i, j \in DOMAIN tree.quadrants.val :
           /\ i < j
           /\ out[1] \in Range(SubtreeItems(tree.quadrants.val[i]))
           /\ out[2] \in Range(SubtreeItems(tree.quadrants.val[j]))

(***************************************************************************)
(* C11: an iteration emits in depth-first pre-order: for each node first    *)
(* the node's own items in the order they were inserted, then the whole     *)
(* subtree of each child, NW, NE, SW, SE. What has been emitted so far is   *)
(* always the beginning of that order, and the pairs of one node come out   *)
(* by ascending insertion.                                                 *)
(***************************************************************************)
IterLive == traversal.some /\ traversal.val.kind = "Iter"

\* The position of a stored pair in a sequence of pairs, 0 when absent.
PositionIn(s, e) ==
    IF \E k \in DOMAIN s : s[k] = e THEN Min({k \in DOMAIN s : s[k] = e}) ELSE 0

C11_IterEmitsPreOrder ==
    IterLive =>
        /\ IsPrefix(out, SubtreeItems(tree))
        /\ IterExhausted =>
               /\ out = SubtreeItems(tree)
               /\ \A p \in Paths(tree) :
                      LET own == OwnItems(NodeAt(tree, p))
                      IN  \A i, j \in DOMAIN own :
                              i < j =>
                                  /\ PositionIn(inserted, own[i])
                                         < PositionIn(inserted, own[j])
                                  /\ PositionIn(out, own[i]) < PositionIn(out, own[j])

\* An iteration returned the two pairs of the root in the order they were
\* inserted and then a pair of a child.
C11_Witness ==
    /\ IterExhausted
    /\ tree.quadrants.some
    /\ Len(OwnItems(tree)) = 2
    /\ Len(out) = 3
    /\ SubSeq(out, 1, 2) = SubSeq(inserted, 1, 2)
    /\ out[3] \notin Range(OwnItems(tree))

(***************************************************************************)
(* C12: a query whose area does not intersect the root boundary.           *)
(***************************************************************************)
DisjointQuery == QueryLive /\ ~intersects(traversal.val.area, tree.boundary)

\* C12 as stated: the query yields nothing, descends into no child node and
\* examines no stored item.
C12_DisjointExaminesNothing ==
    DisjointQuery =>
        /\ out = <<>>
        /\ last.op = "query_next" => last.ret = None
        /\ last.work.frames_pushed = 0
        /\ last.work.items_examined = 0

\* C12 as amended: the query yields nothing and descends into no child node;
\* its first pull returns None, leaves the stack empty and has examined
\* every pair of the root's own item list, and no other pair.
C12_DisjointExaminesRootItems ==
    DisjointQuery =>
        /\ out = <<>>
        /\ last.work.frames_pushed = 0
        /\ last.op = "query_next" =>
               /\ last.ret = None
               /\ traversal.val.stack = <<>>
               /\ last.work.items_examined = Len(OwnItems(tree))

\* A query apart from a tree that holds pairs in its root and in a child
\* has returned None.
C12_Witness ==
    /\ DisjointQuery
    /\ last.op = "query_next"
    /\ tree.quadrants.some
    /\ Len(OwnItems(tree)) >= 1
    /\ Len(SubtreeItems(tree)) > Len(OwnItems(tree))

(***************************************************************************)
(* C13: between_points(a, b) has the componentwise minimum of a and b as    *)
(* p1 and the componentwise maximum as p2, so that p1.x <= p2.x and         *)
(* p1.y <= p2.y; it equals between_points(b, a) and the result for the two  *)
(* other diagonal corner pairs of the same rectangle.                      *)
(***************************************************************************)
Lesser(m, n) == IF m <= n THEN m ELSE n
Greater(m, n) == IF m >= n THEN m ELSE n

C13_BetweenPointsNormalizes ==
    last.op = "between_points" =>
        LET a == last.p1
            b == last.p2
            r == last.ret
        IN  /\ r.p1 = Point(Lesser(a.x, b.x), Lesser(a.y, b.y))
            /\ r.p2 = Point(Greater(a.x, b.x), Greater(a.y, b.y))
            /\ r.p1.x <= r.p2.x
            /\ r.p1.y <= r.p2.y
            /\ r = between_points(b, a)
            /\ r = between_points(Point(a.x, b.y), Point(b.x, a.y))
            /\ r = between_points(Point(b.x, a.y), Point(a.x, b.y))

\* tests::boundary_between_points, "Swap y": (1,2) and (2,1) give the
\* boundary from (1,1) to (2,2).
C13_Witness ==
    /\ last.op = "between_points"
    /\ last.p1 = Point(1, 2)
    /\ last.p2 = Point(2, 1)
    /\ last.ret = Boundary_new(Point(1, 1), 1, 1)

(***************************************************************************)
(* C14: for normalized boundaries a and b, a.intersects(b) is true exactly  *)
(* if some point passes the closed test of both; boundaries that only touch *)
(* on an edge or in a corner intersect; a.intersects(b) = b.intersects(a);  *)
(* and a.encloses(b) implies a.intersects(b).                              *)
(***************************************************************************)
SharePoint(a, b) == \E pt \in Points : InsideClosed(a, pt) /\ InsideClosed(b, pt)

\* The two boundaries meet in a corner of each, or along an edge of each.
TouchOnly(a, b) ==
    /\ SharePoint(a, b)
    /\ \/ a.p2.x = b.p1.x \/ b.p2.x = a.p1.x
       \/ a.p2.y = b.p1.y \/ b.p2.y = a.p1.y

C14_IntersectsIsSharingAPoint ==
    /\ last.op = "intersects" =>
           LET a == last.self
               b == last.boundary
           IN  /\ Normalized(a) /\ Normalized(b)
               /\ last.ret <=> SharePoint(a, b)
               /\ TouchOnly(a, b) => last.ret
               /\ last.ret = intersects(b, a)
    /\ (last.op = "encloses" /\ last.ret) =>
           intersects(last.self, last.boundary)

\* (0,0)-(1,1) and (1,1)-(2,2) share the corner (1,1) alone and intersect.
C14_Witness ==
    /\ last.op = "intersects"
    /\ last.self = Boundary_new(Point(0, 0), 1, 1)
    /\ last.boundary = Boundary_new(Point(1, 1), 1, 1)
    /\ last.ret

(***************************************************************************)
(* C15: for a normalized boundary, width() returns right_border -           *)
(* left_border and height() returns bottom_border - top_border; both are    *)
(* non-negative, and with an unsigned coordinate type neither subtraction  *)
(* underflows.                                                             *)
(***************************************************************************)
C15_WidthAndHeightAreExtents ==
    /\ last.op = "width" =>
           /\ last.ret = Value(last.self.p2.x - last.self.p1.x)
           /\ last.ret.val >= 0
    /\ last.op = "height" =>
           /\ last.ret = Value(last.self.p2.y - last.self.p1.y)
           /\ last.ret.val >= 0

(***************************************************************************)
(* C16: every call of insert_at_unchecked returns after finitely many       *)
(* iterations of its loop, in every reachable tree, for every point inside  *)
(* the boundary and for every capacity, 0 included, also when many pairs    *)
(* share one point or the boundary is a single point.                      *)
(***************************************************************************)
Returned == last.op = "insert_at_unchecked" /\ last.pc = "returned"

C16_EveryCallReturns == InCall ~> Returned

\* What does hold: with a capacity of at least 1 every call returns, after
\* at most one iteration for each full node on its way and one more, and
\* leaves the tree that insert_at_unchecked computes; the loop runs below
\* the followed depth with a capacity of 0 only.
CallsWithCapacityReturn == (InCall /\ capacity(tree.capacity) >= 1) ~> Returned

ReturnsWithinStoredPairs ==
    Returned =>
        /\ capacity(tree.capacity) >= 1
        /\ last.iterations * capacity(tree.capacity)
               <= Len(SubtreeItems(last.entry)) + capacity(tree.capacity)
        /\ tree = insert_at_unchecked(last.entry, last.point, last.value)

RunsOnOnlyWithoutCapacity ==
    (InCall /\ (last.below \/ Len(last.sub_tree) = DescentDepth)) =>
        capacity(tree.capacity) = 0

(***************************************************************************)
(* C17: when an insertion descends from a full node whose boundary contains *)
(* the point P, the child it enters has the index 2*(P.y > m.y) +           *)
(* (P.x > m.x), where m, the far corner of quadrant 0, is the split         *)
(* midpoint: bit 0 is set exactly if P is strictly right of the vertical    *)
(* midline, bit 1 exactly if P is strictly below the horizontal midline, a  *)
(* point on a midline goes west / north, and the boundary of the child      *)
(* entered contains P.                                                     *)
(***************************************************************************)
Midpoint(b) ==
    Point(b.p1.x + (b.p2.x - b.p1.x) \div 2, b.p1.y + (b.p2.y - b.p1.y) \div 2)

Bit(cond) == IF cond THEN 1 ELSE 0

\* The pair is held somewhere in the subtree of the node.
HeldBelow(node, pair) == pair \in Range(SubtreeItems(node))

\* From the node down to the node that holds the pair, every child entered
\* is the one the rule names.
RECURSIVE EntersByRule(_, _)
EntersByRule(node, pair) ==
    IF pair \in Range(OwnItems(node))
    THEN TRUE
    ELSE LET P == pair[1]
             quads == node.quadrants.val
             m == quads[1].boundary.p2
             entered == CHOOSE i \in DOMAIN quads : HeldBelow(quads[i], pair)
             index == entered - 1
         IN  /\ InsideClosed(node.boundary, P)
             /\ Len(OwnItems(node)) = node.capacity
             /\ Len(quads) = 4
             /\ \E i \in DOMAIN quads : HeldBelow(quads[i], pair)
             /\ m = Midpoint(node.boundary)
             /\ index = 2 * Bit(P.y > m.y) + Bit(P.x > m.x)
             /\ (index % 2 = 1) <=> (P.x > m.x)
             /\ (index \div 2 = 1) <=> (P.y > m.y)
             /\ P.x = m.x => index \in {0, 2}
             /\ P.y = m.y => index \in {0, 1}
             /\ InsideClosed(quads[entered].boundary, P)
             /\ EntersByRule(quads[entered], pair)

ChildIndexRule == Stored => EntersByRule(tree', StoredPair)

C17_ChildIndexFollowsMidlines == [][ChildIndexRule]_vars

\* A point on the vertical midline and below the horizontal one was passed
\* on by the full root and stored in the south-west child.
C17_Witness ==
    /\ last.op = "insert_at"
    /\ last.ret = Ok
    /\ tree.quadrants.some
    /\ last.point.x = Midpoint(tree.boundary).x
    /\ last.point.y > Midpoint(tree.boundary).y
    /\ inserted[Len(inserted)] \in Range(OwnItems(tree.quadrants.val[3]))

(***************************************************************************)
(* C18: after checked insertions every pair stored in a node has its point  *)
(* inside that node's boundary and every child's boundary lies inside its   *)
(* parent's; hence, for every area, a node whose boundary the area encloses *)
(* holds no pair outside the area anywhere in its subtree, and a child      *)
(* whose boundary the area does not intersect holds no pair inside it.     *)
(***************************************************************************)
\* The points of the pairs held in the subtree of a node.
PointsBelow(node) == {e[1] : e \in Range(SubtreeItems(node))}

RECURSIVE LiesWithin(_)
LiesWithin(node) ==
    LET below == PointsBelow(node)
    IN  /\ \A k \in DOMAIN OwnItems(node) :
               InsideClosed(node.boundary, OwnItems(node)[k][1])
        /\ below # {} =>
               \A area \in GridBoundaries :
                   /\ encloses(area, node.boundary) =>
                          \A pt \in below : InsideClosed(area, pt)
                   /\ ~intersects(area, node.boundary) =>
                          \A pt \in below : ~InsideClosed(area, pt)
        /\ node.quadrants.some =>
               \A i \in DOMAIN node.quadrants.val :
                   LET child == node.quadrants.val[i]
                   IN  /\ InsideClosed(node.boundary, child.boundary.p1)
                       /\ InsideClosed(node.boundary, child.boundary.p2)
                       /\ LiesWithin(child)

C18_PairsLieInTheirNodes == LiesWithin(tree)

\* A grandchild of the root holds a pair whose point is the far corner of
\* its boundary.
C18_Witness ==
    /\ last.op = "insert_at"
    /\ \E p \in Paths(tree) :
           /\ Len(p) = 2
           /\ \E e \in Range(OwnItems(NodeAt(tree, p))) :
                  e[1] = NodeAt(tree, p).boundary.p2

(***************************************************************************)
(* C19: a successful insertion changes the tree only by appending the new   *)
(* pair at the end of the item list of exactly one node and by creating the *)
(* 4 children of the full, still childless node it passes; every pair       *)
(* stored before stays in its node at its index, children that exist are    *)
(* neither removed nor replaced nor split again, no boundary changes, and   *)
(* every created child has the capacity of the root.                       *)
(***************************************************************************)
\* A child as the insertion creates it: no children, the root's capacity,
\* no pair or the new pair alone.
CreatedChild(node, pair, root_capacity) ==
    /\ node.quadrants = None
    /\ node.capacity = root_capacity
    /\ OwnItems(node) \in {<<>>, <<pair>>}

\* The node after the insertion, compared with the node before it.
RECURSIVE FrameOfNode(_, _, _, _)
FrameOfNode(before, after, pair, root_capacity) ==
    /\ after.boundary = before.boundary
    /\ after.capacity = before.capacity
    /\ \/ OwnItems(after) = OwnItems(before)
       \/ OwnItems(after) = Append(OwnItems(before), pair)
    /\ IF before.quadrants.some
       THEN /\ after.quadrants.some
            /\ Len(after.quadrants.val) = 4
            /\ \A i \in 1..4 :
                   FrameOfNode(before.quadrants.val[i], after.quadrants.val[i],
                               pair, root_capacity)
       ELSE after.quadrants.some =>
                /\ Len(OwnItems(before)) = before.capacity
                /\ OwnItems(after) = OwnItems(before)
                /\ Len(after.quadrants.val) = 4
                /\ \A i \in 1..4 :
                       CreatedChild(after.quadrants.val[i], pair, root_capacity)
                /\ \E i \in 1..4 : OwnItems(after.quadrants.val[i]) = <<pair>>
                /\ [i \in 1..4 |-> after.quadrants.val[i].boundary]
                       = split(before.boundary)

FrameOfInsertion ==
    Stored =>
        /\ FrameOfNode(tree, tree', StoredPair, tree.capacity)
        /\ Occurrences(SubtreeItems(tree'), StoredPair) = 1
        /\ Len(SubtreeItems(tree')) = Len(SubtreeItems(tree)) + 1

C19_InsertionOnlyAppendsAndSplits == [][FrameOfInsertion]_vars

\* The third insertion went through the full root and a full child, gave
\* that child its children, and the two earlier pairs are where they were.
C19_Witness ==
    /\ last.op = "insert_at"
    /\ last.ret = Ok
    /\ Len(inserted) = 3
    /\ OwnItems(tree) = <<inserted[1]>>
    /\ \E i \in 1..4 :
           /\ OwnItems(tree.quadrants.val[i]) = <<inserted[2]>>
           /\ tree.quadrants.val[i].quadrants.some
           /\ \E j \in 1..4 :
                  OwnItems(tree.quadrants.val[i].quadrants.val[j]) = <<inserted[3]>>

(***************************************************************************)
(* C20: a traversal (Query, QueryPoints, Iter, IterPoints) returns Some at  *)
(* most once for each stored pair, so that pulling it reaches None after    *)
(* finitely many pulls; a pull that follows a None returns None and leaves  *)
(* the traversal as it is; a pull changes neither the tree nor what was     *)
(* handed out before; and what the traversal has handed out is the          *)
(* beginning, at its end the whole, of what a second traversal created now  *)
(* on the same tree yields.                                                *)
(***************************************************************************)
\* query(area).take(n).collect() and iter().take(n).collect(): at most n
\* pulls, ended by the first None.
RECURSIVE QueryTake(_, _)
QueryTake(data, n) ==
    IF n = 0 THEN <<>>
    ELSE LET r == query_next(data)
         IN  IF r.ret.some THEN <<r.ret.val>> \o QueryTake(r.data, n - 1) ELSE <<>>

RECURSIVE IterTake(_, _)
IterTake(data, n) ==
    IF n = 0 THEN <<>>
    ELSE LET r == iter_next(data)
         IN  IF r.ret.some THEN <<r.ret.val>> \o IterTake(r.data, n - 1) ELSE <<>>

\* What a second traversal of the same kind, created now, yields within one
\* pull more than there are stored pairs.
SecondTraversal ==
    IF traversal.val.kind = "Query"
    THEN QueryTake(QuerySharedData_new(tree, traversal.val.area), Len(inserted) + 1)
    ELSE IterTake(IterSharedData_new(tree), Len(inserted) + 1)

Pulled == last.op \in {"query_next", "iter_next"}

TraversalIsFinite ==
    traversal.some =>
        LET second == SecondTraversal
        IN  /\ Len(out) <= Len(inserted)
            /\ Len(second) <= Len(inserted)
            /\ IF Pulled /\ last.ret = None
               THEN out = second /\ traversal.val.stack = <<>>
               ELSE IsPrefix(out, second)
            /\ (Pulled /\ last.ret.some) => out[Len(out)] = last.ret.val
            /\ (Pulled /\ last.after_none) => last.ret = None

PullKeepsTheTree ==
    last'.op \in {"query_next", "iter_next"} =>
        /\ tree' = tree
        /\ inserted' = inserted
        /\ IsPrefix(out, out')
        /\ Len(out') = Len(out) + (IF last'.ret.some THEN 1 ELSE 0)
        /\ last'.after_none => (traversal' = traversal /\ out' = out)

C20_TraversalsEndAndStayEnded == []TraversalIsFinite /\ [][PullKeepsTheTree]_vars

\* A query and an iteration that had returned pairs of a split tree and
\* then None were pulled once more.
C20_Witness ==
    /\ Pulled
    /\ last.after_none
    /\ last.ret = None
    /\ tree.quadrants.some
    /\ Len(out) >= 2

====
